---- MODULE Spec2Model ----
(***************************************************************************)
(* kmip-cli (src/main.go): one run of the command-line client.             *)
(*                                                                         *)
(* The program is a single sequential process (main) that parses its       *)
(* flags, dials a TLS connection, reads one request, writes it, reads one  *)
(* TTLV node, checks the batch items and prints the response.  Its         *)
(* environment is the file system (key pair, CA file, request input) and   *)
(* the KMIP server at the other end of the connection (the peer), which    *)
(* delivers a response node in segments or closes the stream.              *)
(***************************************************************************)
EXTENDS Integers, Sequences, FiniteSets, TLC

\* ------------------------------------------------------------------ bounds
\* Longest request input text, in tokens.
MaxInputLen == 2
\* Most batch items the peer puts into one response message.
MaxBatch == 2
\* Number of transport segments the peer splits one response node into.
NodeChunks == 2

\* --------------------------------------------------------------- constants
\* tls.VersionTLS12 (0x0303).
VersionTLS12 == 771

Nil == "nil"

\* ------------------------------------------------------------ hex encoding
HexDigits == <<"0", "1", "2", "3", "4", "5", "6", "7",
               "8", "9", "a", "b", "c", "d", "e", "f">>

IsHexChar(c) == \E i \in 1..16 : HexDigits[i] = c

\* encoding/hex fromHexChar: the value of one hex digit.
FromHexChar(c) == (CHOOSE i \in 1..16 : HexDigits[i] = c) - 1

\* hex.DecodeString as used by readRequest: every pair of hex digits is one
\* byte; a non-hex character or an odd length is an error.
RECURSIVE HexDecodeBytes(_)
HexDecodeBytes(s) ==
    IF Len(s) < 2 THEN <<>>
    ELSE <<16 * FromHexChar(s[1]) + FromHexChar(s[2])>>
         \o HexDecodeBytes(SubSeq(s, 3, Len(s)))

HexDecodeString(s) ==
    IF (\E i \in 1..Len(s) : ~IsHexChar(s[i])) \/ Len(s) % 2 = 1
    THEN [bytes |-> <<>>, err |-> "encoding/hex: invalid input"]
    ELSE [bytes |-> HexDecodeBytes(s), err |-> Nil]

\* hex.EncodeToString: two hex digits per byte.
RECURSIVE HexEncodeToString(_)
HexEncodeToString(b) ==
    IF b = <<>> THEN <<>>
    ELSE <<HexDigits[(b[1] \div 16) + 1], HexDigits[(b[1] % 16) + 1]>>
         \o HexEncodeToString(Tail(b))

\* ------------------------------------------------------------ request text
\* The request input is a sequence of tokens: hex digits, a character that is
\* no hex digit, white space, one well-formed XML element holding a TTLV
\* node, and a piece of malformed markup.
Space == " "
XmlElement == "<e/>"
XmlBroken == "<"
InputChars == {"4", "a", "g", Space, XmlElement, XmlBroken}

\* The TTLV bytes the well-formed XML element stands for.
XmlElementBytes == <<66, 0>>

RECURSIVE SeqsUpTo(_, _)
SeqsUpTo(S, n) ==
    IF n = 0 THEN {<<>>}
    ELSE LET shorter == SeqsUpTo(S, n - 1)
         IN  shorter \cup {Append(s, x) : s \in {t \in shorter : Len(t) = n - 1}, x \in S}

InputTexts == SeqsUpTo(InputChars, MaxInputLen)

\* strings.TrimSpace: leading and trailing white space removed.
RECURSIVE TrimLeft(_)
TrimLeft(s) ==
    IF s # <<>> /\ s[1] = Space THEN TrimLeft(Tail(s)) ELSE s

RECURSIVE TrimRight(_)
TrimRight(s) ==
    IF s # <<>> /\ s[Len(s)] = Space THEN TrimRight(SubSeq(s, 1, Len(s) - 1)) ELSE s

TrimSpace(s) == TrimRight(TrimLeft(s))

\* xml.Decoder.Decode into a TTLV: character data before the first element
\* is skipped; the first element decides; no element at all is io.EOF.
RECURSIVE XmlDecode(_)
XmlDecode(s) ==
    IF s = <<>> THEN [raw |-> <<>>, err |-> "EOF"]
    ELSE IF s[1] = XmlElement THEN [raw |-> XmlElementBytes, err |-> Nil]
    ELSE IF s[1] = XmlBroken THEN [raw |-> <<>>, err |-> "XML syntax error"]
    ELSE XmlDecode(Tail(s))

\* xmlToHex (main.go 188-198): io.EOF is no error and gives the empty string.
xmlToHex(s) ==
    LET d == XmlDecode(s)
    IN  IF d.err # Nil
        THEN IF d.err = "EOF" THEN [hex |-> <<>>, err |-> Nil]
             ELSE [hex |-> <<>>, err |-> d.err]
        ELSE [hex |-> HexEncodeToString(d.raw), err |-> Nil]

\* readRequest after the input was read (main.go 119-129).
DecodeRequest(text, inputFormat) ==
    LET requestStr == TrimSpace(text)
    IN  IF inputFormat = "xml"
        THEN LET h == xmlToHex(requestStr)
             IN  IF h.err # Nil
                 THEN [bytes |-> <<>>, err |-> "failed to convert XML request to hex"]
                 ELSE HexDecodeString(h.hex)
        ELSE HexDecodeString(requestStr)

\* ------------------------------------------------------------ TLS set-up
\* Certificate authorities of the model: the one the CA file may name and
\* another one.
Issuers == {"rootA", "rootB"}

\* The zero tls.Config, and the servers a dial may meet.
NoConf ==
    [Certificates |-> <<>>, MinVersion |-> 0, RootCAs |-> <<>>,
     InsecureSkipVerify |-> FALSE]

NoServer == [reachable |-> FALSE, issuer |-> "", version |-> 0]

Servers ==
    [reachable : BOOLEAN, issuer : Issuers,
     version : {VersionTLS12 - 1, VersionTLS12}]

\* The tls.Config setupConnection builds (main.go 75-91).  RootCAs is <<>>
\* for a nil pool and <<pool>> for the pool read from the CA file.
\* Faulty variant: verification is switched off even with a CA file.
TLSConfig_AlwaysInsecure(caFile, caCertPool) ==
    [Certificates |-> <<"cer">>, MinVersion |-> VersionTLS12,
     RootCAs |-> IF caFile # "" THEN <<caCertPool>> ELSE <<>>,
     InsecureSkipVerify |-> TRUE]

TLSConfig(caFile, caCertPool) ==
    [Certificates |-> <<"cer">>, MinVersion |-> VersionTLS12,
     RootCAs |-> IF caFile # "" THEN <<caCertPool>> ELSE <<>>,
     InsecureSkipVerify |-> (caFile = "")]

\* tls.Dial (main.go 93): the handshake succeeds when the server is reached,
\* speaks a version the configuration allows, and its certificate is either
\* not verified or issued by one of the configured roots (a nil pool is the
\* host's root set, which holds none of the model's issuers).
DialOK(c, srv) ==
    /\ srv.reachable
    /\ srv.version >= c.MinVersion
    /\ \/ c.InsecureSkipVerify
       \/ c.RootCAs # <<>> /\ srv.issuer \in c.RootCAs[1]

\* setupConnection (main.go 69-98).  dialed tells whether tls.Dial was called.
setupConnection(caFile, keyPairOK, caReadOK, caCerts, srv) ==
    IF ~keyPairOK
    THEN [conf |-> NoConf, dialed |-> FALSE, err |-> "failed to load client key pair"]
    ELSE IF caFile # "" /\ ~caReadOK
    THEN [conf |-> NoConf, dialed |-> FALSE, err |-> "failed to read CA certificate"]
    ELSE LET c == TLSConfig(caFile, caCerts)
         IN  IF DialOK(c, srv)
             THEN [conf |-> c, dialed |-> TRUE, err |-> Nil]
             ELSE [conf |-> c, dialed |-> TRUE, err |-> "failed to connect to server"]

\* --------------------------------------------------------- response model
\* Batch items of a response: result status and result message.
BatchItems ==
    { [ResultStatus |-> "Success", ResultMessage |-> ""],
      [ResultStatus |-> "OperationFailed", ResultMessage |-> "denied"],
      [ResultStatus |-> "OperationPending", ResultMessage |-> ""] }

\* What the peer may send as one TTLV node: a response message, a well-formed
\* node that is no response message, or bytes with an invalid TTLV header.
NoNode == [kind |-> "nil", items |-> <<>>]

ResponseNodes ==
    { [kind |-> "ResponseMessage", items |-> s] : s \in SeqsUpTo(BatchItems, MaxBatch) }
    \cup { [kind |-> "Other", items |-> <<>>], [kind |-> "Invalid", items |-> <<>>] }

\* A ttlv.TTLV value held by the client: chunks segments of node; nil is the
\* empty value.
NilTTLV == [node |-> NoNode, chunks |-> 0]

RawTTLV(node, k) == IF k = 0 THEN NilTTLV ELSE [node |-> node, chunks |-> k]

\* Errors of sendRequest.
NoErr == [kind |-> Nil, index |-> -1, status |-> "", message |-> ""]

Err(kind) == [kind |-> kind, index |-> -1, status |-> "", message |-> ""]

\* A line of text: a fixed text, or a rendering (text names it) of a TTLV.
Line(text, ttlv) == [text |-> text, of |-> ttlv]

NoReturn == [resp |-> NilTTLV, hex |-> Line("", NilTTLV), err |-> NoErr, returned |-> FALSE]

Return(resp, hex, err) == [resp |-> resp, hex |-> hex, err |-> err, returned |-> TRUE]

\* The loop over the batch items (main.go 159-166): the error of the first
\* item, in order, whose status is not Success; NoErr when the loop ends.
\* Faulty variant: the loop does not look at the first batch item.
RECURSIVE CheckFrom_SkipFirst(_, _)
CheckFrom_SkipFirst(items, i) ==
    IF i >= Len(items) THEN NoErr
    ELSE IF i > 0 /\ items[i + 1].ResultStatus # "Success"
    THEN [kind |-> "KMIP operation in batch item failed", index |-> i,
          status |-> items[i + 1].ResultStatus,
          message |-> items[i + 1].ResultMessage]
    ELSE CheckFrom_SkipFirst(items, i + 1)

RECURSIVE CheckFrom(_, _)
CheckFrom(items, i) ==
    IF i >= Len(items) THEN NoErr
    ELSE IF items[i + 1].ResultStatus # "Success"
    THEN [kind |-> "KMIP operation in batch item failed", index |-> i,
          status |-> items[i + 1].ResultStatus,
          message |-> items[i + 1].ResultMessage]
    ELSE CheckFrom(items, i + 1)

CheckBatchItems_SkipFirst(items) == CheckFrom_SkipFirst(items, 0)

CheckBatchItems(items) == CheckFrom(items, 0)

\* ------------------------------------------------------------------ state
VARIABLES
    args,       \* the parsed flags (main.go 24-34)
    caCerts,    \* file system: the certificates the CA file holds
    pc,         \* main's position
    conf,       \* the tls.Config handed to tls.Dial
    server,     \* the server the dial met
    conn,       \* the connection handle: "nil", "open" or "closed"
    dials,      \* calls of tls.Dial
    inputRead,  \* the request input was read to its end
    request,    \* readRequest's result
    writes,     \* calls of conn.Write
    wireOut,    \* the bytes written to the connection
    peer,       \* the peer's side of the stream
    reads,      \* calls of decoder.NextTTLV
    rawRead,    \* the bytes the decoder had read when NextTTLV returned
    resp,       \* the node NextTTLV returned
    respMsg,    \* the response message DecodeValue filled
    sendRet,    \* sendRequest's return values
    xlog,       \* the steps of the exchange, in order
    stdout,     \* the lines printed to standard output
    stderr,     \* the fatal message
    exitCode,   \* the exit status, -1 while running
    failure     \* the failure that occurred, Nil when none

vars ==
    <<args, caCerts, pc, conf, server, conn, dials, inputRead, request, writes,
      wireOut, peer, reads, rawRead, resp, respMsg, sendRet, xlog, stdout,
      stderr, exitCode, failure>>

Flags ==
    [help : BOOLEAN,
     server : {"", "localhost:5696"},
     key : {"", "client.key"},
     cert : {"", "client.pem"},
     cacert : {"", "ca.pem"},
     in : {"", "request.txt"},
     inputFormat : {"hex", "xml", "json"},
     outputFormat : {"hex", "xml", "json"}]

NoRequest == [bytes |-> <<>>, err |-> Nil, returned |-> FALSE]

NoPeer == [node |-> NoNode, delivered |-> 0, closed |-> FALSE]

NoFatal == [msg |-> "", cause |-> ""]

Init ==
    /\ args \in Flags
    /\ caCerts \in {{}, {"rootA"}}
    /\ args.cacert = "" => caCerts = {}
    /\ pc = "main"
    /\ conf = NoConf
    /\ server = NoServer
    /\ conn = "nil"
    /\ dials = 0
    /\ inputRead = FALSE
    /\ request = NoRequest
    /\ writes = 0
    /\ wireOut = <<>>
    /\ peer = NoPeer
    /\ reads = 0
    /\ rawRead = NilTTLV
    /\ resp = NilTTLV
    /\ respMsg = [BatchItem |-> <<>>]
    /\ sendRet = NoReturn
    /\ xlog = <<>>
    /\ stdout = <<>>
    /\ stderr = NoFatal
    /\ exitCode = -1
    /\ failure = Nil

\* -------------------------------------------------------------- exit paths
\* log.Fatalf: the message goes to standard error and os.Exit(1) ends the
\* process at once; deferred calls do not run.
Fatalf(msg, cause) ==
    /\ stderr' = [msg |-> msg, cause |-> cause]
    /\ exitCode' = 1
    /\ pc' = "exited"

\* ------------------------------------------------------------------- main
\* main.go 36: the usage text is shown instead of running.
\* Faulty variant: the certificate argument is not required.
ShowHelp_NoCertCheck(a) == a.help \/ a.server = "" \/ a.key = ""

ShowHelp(a) == a.help \/ a.server = "" \/ a.key = "" \/ a.cert = ""

\* main.go 36-39: printCustomHelp and return, or go on to the connection.
ParseArgs ==
    /\ pc = "main"
    /\ IF ShowHelp(args)
       THEN /\ stdout' = Append(stdout, Line("usage", NilTTLV))
            /\ exitCode' = 0
            /\ pc' = "exited"
            /\ failure' = IF args.help THEN Nil ELSE "missing required argument"
       ELSE /\ pc' = "setupConnection"
            /\ UNCHANGED <<stdout, exitCode, failure>>
    /\ UNCHANGED <<args, caCerts, conf, server, conn, dials, inputRead, request,
                   writes, wireOut, peer, reads, rawRead, resp, respMsg, sendRet,
                   xlog, stderr>>

\* main.go 45-49: setupConnection, Fatalf on its error, defer conn.Close().
SetupConnection ==
    /\ pc = "setupConnection"
    /\ \E keyPairOK \in BOOLEAN, caReadOK \in BOOLEAN, srv \in Servers :
         LET r == setupConnection(args.cacert, keyPairOK, caReadOK, caCerts, srv)
         IN  /\ conf' = r.conf
             /\ dials' = IF r.dialed THEN dials + 1 ELSE dials
             /\ server' = IF r.dialed THEN srv ELSE server
             /\ IF r.err # Nil
                THEN /\ Fatalf("Failed to establish connection", r.err)
                     /\ failure' = r.err
                     /\ UNCHANGED conn
                ELSE /\ conn' = "open"
                     /\ pc' = "readRequest"
                     /\ UNCHANGED <<stderr, exitCode, failure>>
    /\ UNCHANGED <<args, caCerts, inputRead, request, writes, wireOut, peer,
                   reads, rawRead, resp, respMsg, sendRet, xlog, stdout>>

\* readRequest (main.go 100-130): open or prompt, read all, trim, decode.
readRequest(inputFile, inputFormat, openOK, readOK, text) ==
    IF inputFile # "" /\ ~openOK
    THEN [bytes |-> <<>>, err |-> "failed to open input file", prompted |-> FALSE,
          read |-> FALSE]
    ELSE IF ~readOK
    THEN [bytes |-> <<>>, err |-> "failed to read request",
          prompted |-> (inputFile = ""), read |-> FALSE]
    ELSE LET d == DecodeRequest(text, inputFormat)
         IN  [bytes |-> d.bytes, err |-> d.err, prompted |-> (inputFile = ""),
              read |-> TRUE]

\* main.go 52-55: readRequest, Fatalf on its error.
ReadRequest ==
    /\ pc = "readRequest"
    /\ \E openOK \in BOOLEAN, readOK \in BOOLEAN, text \in InputTexts :
         LET r == readRequest(args.in, args.inputFormat, openOK, readOK, text)
         IN  /\ stdout' = IF r.prompted
                          THEN Append(stdout, Line("Enter KMIP request", NilTTLV))
                          ELSE stdout
             /\ inputRead' = r.read
             /\ request' = [bytes |-> r.bytes, err |-> r.err, returned |-> TRUE]
             /\ IF r.err # Nil
                THEN /\ Fatalf("Failed to read request", r.err)
                     /\ failure' = r.err
                ELSE /\ pc' = "write"
                     /\ UNCHANGED <<stderr, exitCode, failure>>
    /\ UNCHANGED <<args, caCerts, conf, server, conn, dials, writes, wireOut,
                   peer, reads, rawRead, resp, respMsg, sendRet, xlog>>

\* ------------------------------------------------------------ sendRequest
\* main.go 133-136: where sendRequest goes after conn.Write.
\* Faulty variant: the Write error is ignored and the read follows.
AfterWrite_IgnoreError(err) == "nextTTLV"

\* Faulty variant: a failed Write is tried once more.
AfterWrite_Retry(err) ==
    IF err.kind # Nil
    THEN IF writes < 2 THEN "write" ELSE "sendReturned"
    ELSE "nextTTLV"

AfterWrite(err) == IF err.kind # Nil THEN "sendReturned" ELSE "nextTTLV"

\* main.go 133-136: one conn.Write of the whole request.  A failed Write may
\* have put a proper prefix of the request on the wire.
ConnWrite ==
    /\ pc = "write"
    /\ writes' = writes + 1
    /\ \E ok \in BOOLEAN, k \in 0..Len(request.bytes) :
         LET err == IF ok THEN NoErr ELSE Err("write failed")
         IN  /\ ok => k = Len(request.bytes)
             /\ ~ok => (k < Len(request.bytes) \/ k = 0)
             /\ wireOut' = wireOut \o SubSeq(request.bytes, 1, k)
             /\ xlog' = Append(xlog, IF ok THEN "write_ok" ELSE "write_err")
             /\ sendRet' = IF ok THEN sendRet
                           ELSE Return(NilTTLV, Line("Unable to write request", NilTTLV), err)
             /\ pc' = AfterWrite(err)
    /\ UNCHANGED <<args, caCerts, conf, server, conn, dials, inputRead, request,
                   peer, reads, rawRead, resp, respMsg, stdout, stderr, exitCode,
                   failure>>

\* The peer puts the next segment of its response node on the stream; the
\* node is chosen with the first segment.  The program looks at the stream
\* in its one NextTTLV call only: what the peer sends earlier waits in the
\* stream, so the peer's steps are taken from the time the request has been
\* read until that call has returned.
PeerSend ==
    /\ conn = "open"
    /\ request.returned
    /\ reads = 0
    /\ pc # "exited"
    /\ ~peer.closed
    /\ peer.delivered < NodeChunks
    /\ \E n \in ResponseNodes :
         /\ peer.node # NoNode => n = peer.node
         /\ peer' = [peer EXCEPT !.node = n, !.delivered = @ + 1]
    /\ UNCHANGED <<args, caCerts, pc, conf, server, conn, dials, inputRead,
                   request, writes, wireOut, reads, rawRead, resp, respMsg,
                   sendRet, xlog, stdout, stderr, exitCode, failure>>

\* The peer closes the stream, or the stream breaks.
PeerClose ==
    /\ conn = "open"
    /\ request.returned
    /\ reads = 0
    /\ pc # "exited"
    /\ ~peer.closed
    /\ peer' = [peer EXCEPT !.closed = TRUE]
    /\ UNCHANGED <<args, caCerts, pc, conf, server, conn, dials, inputRead,
                   request, writes, wireOut, reads, rawRead, resp, respMsg,
                   sendRet, xlog, stdout, stderr, exitCode, failure>>

\* decoder.NextTTLV (main.go 139) blocks until the stream holds one whole
\* node, shows an invalid header, or has ended.
\* Faulty variant: the end of the stream does not wake the read.
NextTTLVReady_NoEOF(p) ==
    \/ p.delivered = NodeChunks
    \/ p.node.kind = "Invalid" /\ p.delivered >= 1

NextTTLVReady(p) ==
    \/ p.delivered = NodeChunks
    \/ p.node.kind = "Invalid" /\ p.delivered >= 1
    \/ p.closed

\* main.go 140-142: what sendRequest returns when NextTTLV fails; raw is what
\* the decoder had read.
\* Faulty variant: the bytes read so far are returned with the error.
ReadErrReturn_Partial(raw, err) ==
    Return(raw, Line("Unable to decode response TTLV", NilTTLV), err)

ReadErrReturn(raw, err) ==
    Return(NilTTLV, Line("Unable to decode response TTLV", NilTTLV), err)

\* main.go 138-142: read one TTLV node from the connection.
NextTTLV ==
    /\ pc = "nextTTLV"
    /\ NextTTLVReady(peer)
    /\ reads' = reads + 1
    /\ rawRead' = RawTTLV(peer.node, peer.delivered)
    /\ LET err == IF peer.node.kind = "Invalid" /\ peer.delivered >= 1
                  THEN Err("invalid header")
                  ELSE IF peer.delivered = NodeChunks THEN NoErr
                  ELSE Err("unexpected EOF")
       IN  IF err.kind # Nil
           THEN /\ sendRet' = ReadErrReturn(rawRead', err)
                /\ xlog' = Append(xlog, "read_err")
                /\ pc' = "sendReturned"
                /\ UNCHANGED resp
           ELSE /\ resp' = RawTTLV(peer.node, NodeChunks)
                /\ xlog' = Append(xlog, "read_node")
                /\ pc' = "decodeValue"
                /\ UNCHANGED sendRet
    /\ UNCHANGED <<args, caCerts, conf, server, conn, dials, inputRead, request,
                   writes, wireOut, peer, respMsg, stdout, stderr, exitCode,
                   failure>>

\* main.go 144-149: decode the node into a kmip.ResponseMessage; the raw node
\* is returned with the error when that fails.
DecodeValue ==
    /\ pc = "decodeValue"
    /\ IF resp.node.kind = "ResponseMessage"
       THEN /\ respMsg' = [BatchItem |-> resp.node.items]
            /\ xlog' = Append(xlog, "decoded")
            /\ pc' = "statusCheck"
            /\ UNCHANGED sendRet
       ELSE /\ sendRet' = Return(resp, Line("", NilTTLV),
                                 Err("failed to decode response message"))
            /\ xlog' = Append(xlog, "decode_err")
            /\ pc' = "sendReturned"
            /\ UNCHANGED respMsg
    /\ UNCHANGED <<args, caCerts, conf, server, conn, dials, inputRead, request,
                   writes, wireOut, peer, reads, rawRead, resp, stdout, stderr,
                   exitCode, failure>>

\* main.go 158-169: the batch status check and sendRequest's last return.
StatusCheck ==
    /\ pc = "statusCheck"
    /\ LET err == CheckBatchItems(respMsg.BatchItem)
       IN  IF err.kind # Nil
           THEN /\ sendRet' = Return(resp, Line("", NilTTLV), err)
                /\ xlog' = Append(xlog, "status_err")
           ELSE /\ sendRet' = Return(resp, Line("hex", resp), NoErr)
                /\ xlog' = Append(xlog, "validated")
    /\ pc' = "sendReturned"
    /\ UNCHANGED <<args, caCerts, conf, server, conn, dials, inputRead, request,
                   writes, wireOut, peer, reads, rawRead, resp, respMsg, stdout,
                   stderr, exitCode, failure>>

\* ---------------------------------------------------- main, after the send
\* main.go 59: main's test of sendRequest's error.
\* Faulty variant: main takes a non-nil response for success.
SendFailed_OnlyNilResponse(ret) == ret.resp = NilTTLV

SendFailed(ret) == ret.err.kind # Nil

\* main.go 58-61: Fatalf when sendRequest failed; its hex string is dropped.
MainAfterSend ==
    /\ pc = "sendReturned"
    /\ IF SendFailed(sendRet)
       THEN /\ Fatalf("Failed to send request", sendRet.err.kind)
            /\ failure' = sendRet.err.kind
       ELSE /\ pc' = "printResponse"
            /\ UNCHANGED <<stderr, exitCode, failure>>
    /\ UNCHANGED <<args, caCerts, conf, server, conn, dials, inputRead, request,
                   writes, wireOut, peer, reads, rawRead, resp, respMsg, sendRet,
                   xlog, stdout>>

\* printResponse (main.go 172-186): the line printed, or the error.
printResponse(response, format, marshalOK) ==
    CASE format = "xml" ->
           IF marshalOK THEN [out |-> <<Line("xml", response)>>, err |-> Nil]
           ELSE [out |-> <<>>, err |-> "error printing XML"]
      [] format = "hex" -> [out |-> <<Line("hex", response)>>, err |-> Nil]
      [] OTHER -> [out |-> <<>>, err |-> "unknown output format"]

\* main.go 64-67: print, Fatalf on an error, else return from main, which
\* runs the deferred conn.Close().
PrintResponse ==
    /\ pc = "printResponse"
    /\ \E marshalOK \in BOOLEAN :
         LET r == printResponse(sendRet.resp, args.outputFormat, marshalOK)
         IN  /\ stdout' = stdout \o r.out
             /\ IF r.err # Nil
                THEN /\ Fatalf("Failed to print response", r.err)
                     /\ failure' = r.err
                     /\ UNCHANGED conn
                ELSE /\ conn' = "closed"
                     /\ exitCode' = 0
                     /\ pc' = "exited"
                     /\ UNCHANGED <<stderr, failure>>
    /\ UNCHANGED <<args, caCerts, conf, server, dials, inputRead, request,
                   writes, wireOut, peer, reads, rawRead, resp, respMsg, sendRet,
                   xlog>>

\* ---------------------------------------------------------- specifications
Program ==
    \/ ParseArgs
    \/ SetupConnection
    \/ ReadRequest
    \/ ConnWrite
    \/ NextTTLV
    \/ DecodeValue
    \/ StatusCheck
    \/ MainAfterSend
    \/ PrintResponse

Next ==
    \/ ParseArgs
    \/ SetupConnection
    \/ ReadRequest
    \/ ConnWrite
    \/ NextTTLV
    \/ DecodeValue
    \/ StatusCheck
    \/ MainAfterSend
    \/ PrintResponse
    \/ PeerSend
    \/ PeerClose

Spec == Init /\ [][Next]_vars

\* The process keeps running: whenever main can take its next step it takes
\* it.  Nothing is assumed of the peer.
LiveSpec == Spec /\ WF_vars(Program)

\* ------------------------------------------------------------------ claims
Exited == pc = "exited"

ReadErrors == {"unexpected EOF", "invalid header"}

DecodeError == "failed to decode response message"

StatusError == "KMIP operation in batch item failed"

\* The 0-based indexes of the batch items whose status is not Success.
NotSuccess(items) ==
    {i \in 0..(Len(items) - 1) : items[i + 1].ResultStatus # "Success"}

Least(S) == CHOOSE i \in S : \A j \in S : i <= j

StatusCheckRan == sendRet.returned /\ xlog # <<>> /\ xlog[Len(xlog)] \in {"status_err", "validated"}

\* C1: on every exit taken after setupConnection returned a connection
\* (normal return and each Fatalf exit), the connection has been closed
\* before the process ends.
C1_ClosedOnEveryExit == (Exited /\ conn # "nil") => conn = "closed"

\* C2: whenever a set-up, I/O or protocol failure occurred (a missing
\* required argument is one), the run ends with a fatal message and a
\* non-zero exit status; exit status zero means no failure occurred.
C2_FailFast ==
    Exited =>
        /\ failure # Nil => (exitCode # 0 /\ stderr.msg # "")
        /\ exitCode = 0 => failure = Nil

\* C3: the batch status check returns no error exactly when every item is
\* Success; otherwise its error names the least index of an item that is not
\* Success, with that item's status and message; either way the raw decoded
\* node is returned.
C3_BatchStatusCheck ==
    StatusCheckRan =>
        LET items == respMsg.BatchItem
            bad == NotSuccess(items)
        IN  /\ sendRet.err = NoErr <=> bad = {}
            /\ bad # {} =>
                 /\ sendRet.err.kind = StatusError
                 /\ sendRet.err.index = Least(bad)
                 /\ sendRet.err.status = items[Least(bad) + 1].ResultStatus
                 /\ sendRet.err.message = items[Least(bad) + 1].ResultMessage
            /\ sendRet.resp = RawTTLV(peer.node, NodeChunks)
            /\ items = peer.node.items

C3_Witness ==
    /\ StatusCheckRan
    /\ sendRet.err.index = 1
    /\ sendRet.err.message = "denied"
    /\ respMsg.BatchItem[1].ResultStatus = "Success"

\* C4 as stated: when the response is partial or malformed, sendRequest
\* returns the raw bytes read so far with the error, not an empty response.
C4_RawBytesOnPartialOrMalformed ==
    (/\ sendRet.returned
     /\ sendRet.err.kind \in ReadErrors \cup {DecodeError}
     /\ rawRead # NilTTLV)
        => sendRet.resp = rawRead

\* C4 as amended: the raw node is returned with the error only when a whole
\* node was read and does not decode as a response message; when NextTTLV
\* fails (stream ended early, invalid header) the response returned is nil,
\* whatever was read.
C4_RawNodeOnlyAfterFullRead ==
    sendRet.returned =>
        /\ sendRet.err.kind \in ReadErrors => sendRet.resp = NilTTLV
        /\ sendRet.err.kind = DecodeError =>
             /\ sendRet.resp = rawRead
             /\ rawRead = RawTTLV(peer.node, NodeChunks)

C4_Witness ==
    /\ sendRet.returned
    /\ sendRet.err.kind = "unexpected EOF"
    /\ rawRead.chunks >= 1
    /\ sendRet.resp = NilTTLV

\* C5: the exchange goes Idle -> Sent -> Decoded -> Validated, Failed being
\* reachable at each step: a read starts only after a successful write, the
\* status check runs only on a whole node decoded as a response message,
\* Validated means the check passed, and nothing is written or read after
\* Failed or Validated.
ExchangeRuns ==
    { <<"write_err">>,
      <<"write_ok", "read_err">>,
      <<"write_ok", "read_node", "decode_err">>,
      <<"write_ok", "read_node", "decoded", "status_err">>,
      <<"write_ok", "read_node", "decoded", "validated">> }

IsPrefix(s, t) == Len(s) <= Len(t) /\ s = SubSeq(t, 1, Len(s))

Count(log, events) == Cardinality({i \in 1..Len(log) : log[i] \in events})

C5_ExchangeStateMachine ==
    /\ \E run \in ExchangeRuns : IsPrefix(xlog, run)
    /\ writes = Count(xlog, {"write_ok", "write_err"})
    /\ reads = Count(xlog, {"read_node", "read_err"})
    /\ pc = "nextTTLV" => xlog = <<"write_ok">>
    /\ pc = "statusCheck" =>
         /\ xlog = <<"write_ok", "read_node", "decoded">>
         /\ resp = RawTTLV(peer.node, NodeChunks)
         /\ resp.node.kind = "ResponseMessage"
    /\ (xlog # <<>> /\ xlog[Len(xlog)] = "validated") =>
         /\ NotSuccess(respMsg.BatchItem) = {}
         /\ sendRet.err = NoErr
    /\ xlog \in ExchangeRuns => pc \in {"sendReturned", "printResponse", "exited"}

C5_Witness ==
    /\ Exited
    /\ xlog = <<"write_ok", "read_node", "decoded", "validated">>
    /\ Len(respMsg.BatchItem) > 0

\* C6: at most one dial, one Write call carrying the whole request, and one
\* TTLV node read per run; nothing is retried after an error.
C6_AtMostOnce ==
    /\ dials <= 1
    /\ writes <= 1
    /\ reads <= 1
    /\ IsPrefix(wireOut, request.bytes)
    /\ (xlog # <<>> /\ xlog[1] = "write_ok") => wireOut = request.bytes

C6_Witness ==
    /\ Exited
    /\ exitCode = 1
    /\ dials = 1
    /\ writes = 1
    /\ reads = 1
    /\ wireOut # <<>>

\* C7: server certificate verification is off exactly when no CA path is
\* given; with a CA path the dial verifies against the roots loaded from that
\* file, or set-up fails before dialing; the client certificate and the
\* minimum version TLS 1.2 are configured either way.
C7_VerificationIffCA ==
    /\ dials > 0 =>
         /\ conf.InsecureSkipVerify <=> args.cacert = ""
         /\ args.cacert # "" => conf.RootCAs = <<caCerts>>
         /\ conf.Certificates = <<"cer">>
         /\ conf.MinVersion = VersionTLS12
    /\ conn # "nil" =>
         /\ dials = 1
         /\ server.version >= VersionTLS12
         /\ args.cacert # "" => server.issuer \in caCerts
    /\ (dials = 0 /\ pc \notin {"main", "setupConnection"}) =>
         /\ Exited
         /\ conn = "nil"

C7_Witness ==
    /\ conn = "open"
    /\ args.cacert # ""
    /\ ~conf.InsecureSkipVerify
    /\ server.issuer \in caCerts

\* C8: every run ends (the process exits) provided the peer at some time has
\* delivered one whole node or closed the stream; this includes a request of
\* zero bytes, for which nothing is written and the client waits in the read.
PeerDone == peer.closed \/ peer.delivered = NodeChunks

C8_Terminates ==
    /\ <>PeerDone => <>Exited
    /\ [](pc = "nextTTLV" /\ request.bytes = <<>> => wireOut = <<>> /\ writes = 1)
    /\ [](pc = "nextTTLV" /\ ~NextTTLVReady(peer) => ~ENABLED Program)

C8_Witness ==
    /\ Exited
    /\ request.returned
    /\ request.err = Nil
    /\ request.bytes = <<>>
    /\ writes = 1
    /\ wireOut = <<>>
    /\ reads = 1

\* C9: bytes are written only after the arguments were complete and help was
\* not asked for, then the connection was established, then the request
\* input was read and decoded; a failed connection means the input is never
\* read, a failed request read means nothing is written.
HasLine(text) == \E i \in 1..Len(stdout) : stdout[i].text = text

C9_WriteOnlyAfterSetupAndRead ==
    /\ writes > 0 =>
         /\ ~args.help
         /\ args.server # ""
         /\ args.key # ""
         /\ args.cert # ""
         /\ dials = 1
         /\ conn # "nil"
         /\ inputRead
         /\ request.returned
         /\ request.err = Nil
    /\ (inputRead \/ request.returned \/ HasLine("Enter KMIP request")) => conn # "nil"
    /\ stderr.msg = "Failed to establish connection" =>
         /\ ~inputRead
         /\ ~request.returned
         /\ writes = 0
    /\ stderr.msg = "Failed to read request" =>
         /\ conn = "open"
         /\ writes = 0
         /\ wireOut = <<>>

C9_Witness ==
    /\ Exited
    /\ writes = 1
    /\ wireOut # <<>>
    /\ args.inputFormat = "xml"

\* C10: the response is printed only when sendRequest returned no error, so
\* only a response message whose items are all Success; a raw node returned
\* with an error is never printed; an unknown output format is reported only
\* after the request was sent and a fully successful response received.
ResponsePrinted == HasLine("hex") \/ HasLine("xml")

C10_PrintOnlyOnSuccess ==
    /\ ResponsePrinted =>
         /\ sendRet.returned
         /\ sendRet.err = NoErr
         /\ sendRet.resp.node.kind = "ResponseMessage"
         /\ NotSuccess(sendRet.resp.node.items) = {}
         /\ stdout[Len(stdout)].of = RawTTLV(peer.node, NodeChunks)
    /\ sendRet.err.kind # Nil => ~ResponsePrinted
    /\ stderr.cause = "unknown output format" =>
         /\ wireOut = request.bytes
         /\ xlog = <<"write_ok", "read_node", "decoded", "validated">>
         /\ sendRet.err = NoErr
         /\ ~ResponsePrinted

C10_Witness ==
    /\ Exited
    /\ sendRet.err.kind = DecodeError
    /\ sendRet.resp # NilTTLV
    /\ ~ResponsePrinted

====
